---- MODULE Spec2Model ----
(***************************************************************************)
(* State-machine model of src/10queries_conditional_render.cpp: the chunk  *)
(* extraction pass (exposed-face voxel mesher), the per-frame sort / peel  *)
(* loop with occlusion queries and conditional rendering, and the ring of  *)
(* timer queries.                                                          *)
(*                                                                         *)
(* Units.  Voxel positions and chunk offsets are integers.  Everything the *)
(* code offsets by 0.5 (mesh vertices, bounding-box vertices, chunk        *)
(* centers) and the camera position are kept in TENTHS of a voxel, so that *)
(* all arithmetic is exact integer arithmetic.  A comparison               *)
(* distance(a,b) < m of the code is Dist2(a,b) < (10*m)^2 on coordinates   *)
(* in tenths.  Floating-point rounding is not modelled.                    *)
(***************************************************************************)
EXTENDS Integers, Sequences, FiniteSets, TLC

(***************************************************************************)
(* Program constants and model bounds                                      *)
(***************************************************************************)
\* int chunkrange = 4 in the source; the model extracts the grid [-1,1)^3.
chunkrange == 1
\* int chunksize = 32 in the source; the model uses 2x2x2-voxel chunks.
chunksize == 2
\* float threshold = 0.0f
threshold == 0
\* const int querycount = 5
querycount == 5
\* number of frame-loop iterations followed with a moving camera
MaxFrames == 2
\* number of frame-loop iterations followed with a resting camera
RingFrames == 7

(***************************************************************************)
(* glm::vec3 arithmetic on integer triples                                 *)
(***************************************************************************)
VAdd(a, b)    == <<a[1] + b[1], a[2] + b[2], a[3] + b[3]>>
VSub(a, b)    == <<a[1] - b[1], a[2] - b[2], a[3] - b[3]>>
VScale(n, a)  == <<n * a[1], n * a[2], n * a[3]>>
Dot(a, b)     == a[1] * b[1] + a[2] * b[2] + a[3] * b[3]
\* square of glm::distance
Dist2(a, b)   == Dot(VSub(a, b), VSub(a, b))
Abs(n)        == IF n < 0 THEN -n ELSE n
Max(a, b)     == IF a > b THEN a ELSE b

RECURSIVE Concat(_, _, _)
\* F[lo] \o F[lo+1] \o ... \o F[hi-1] for a function F of sequences
Concat(F, lo, hi) == IF lo >= hi THEN <<>> ELSE F[lo] \o Concat(F, lo + 1, hi)

Range(s) == {s[n] : n \in 1..Len(s)}

(***************************************************************************)
(* The scalar field.  world_function is Perlin noise in the source; the    *)
(* mesher only compares its value with threshold, so the model draws the   *)
(* field from a family of integer-valued fields (values -1, 0, 1).         *)
(***************************************************************************)
GridCoords == (-chunkrange)..(chunkrange - 1)

ChunkCoordOf(pos) ==
    <<(pos[1] + chunkrange * chunksize) \div chunksize - chunkrange,
      (pos[2] + chunkrange * chunksize) \div chunksize - chunkrange,
      (pos[3] + chunkrange * chunksize) \div chunksize - chunkrange>>

InWorld(pos) ==
    \A a \in 1..3 : pos[a] >= -chunkrange * chunksize /\ pos[a] < chunkrange * chunksize

world_function(f, pos) ==
    CASE f.kind = "const"   -> f.v
      [] f.kind = "chunk"   -> IF InWorld(pos) /\ ChunkCoordOf(pos) = f.c THEN -1 ELSE f.v
      [] f.kind = "hollow"  -> IF InWorld(pos) /\ ChunkCoordOf(pos) = f.c THEN f.v ELSE -1
      [] f.kind = "voxel"   -> IF pos = f.c THEN -1 ELSE f.v
      [] f.kind = "lattice" -> ((Dot(f.c, pos) + f.v) % 3) - 1

Fields ==
    [kind : {"const"}, v : {-1, 0, 1}, c : {<<0, 0, 0>>}]
      \cup [kind : {"chunk", "hollow"}, v : {0, 1}, c : GridCoords \X GridCoords \X GridCoords]
      \cup [kind : {"voxel"}, v : {0, 1},
            c : {<<0, 0, 0>>, <<-1, 0, 1>>, <<chunksize - 1, -chunksize, 0>>}]
      \cup [kind : {"lattice"}, v : 0..2,
            c : {<<1, 0, 0>>, <<1, 1, 0>>, <<1, 1, 1>>, <<1, 2, 0>>, <<2, 1, 2>>, <<0, 1, 2>>}]

(***************************************************************************)
(* Chunk extraction (the mesher)                                           *)
(***************************************************************************)
\* the six neighbour directions in the order the code tests them
Dirs == << <<1, 0, 0>>, <<0, 1, 0>>, <<0, 0, 1>>, <<-1, 0, 0>>, <<0, -1, 0>>, <<0, 0, -1>> >>

\* the glm::vec3(...) the code scales by 0.5f for the corners of each direction
Corners ==
    << << <<1, 1, 1>>,  <<1, -1, 1>>,  <<1, 1, -1>>,  <<1, -1, -1>> >>,
       << <<1, 1, 1>>,  <<1, 1, -1>>,  <<-1, 1, 1>>,  <<-1, 1, -1>> >>,
       << <<1, 1, 1>>,  <<-1, 1, 1>>,  <<1, -1, 1>>,  <<-1, -1, 1>> >>,
       << <<-1, 1, 1>>, <<-1, 1, -1>>, <<-1, -1, 1>>, <<-1, -1, -1>> >>,
       << <<1, -1, 1>>, <<-1, -1, 1>>, <<1, -1, -1>>, <<-1, -1, -1>> >>,
       << <<1, 1, -1>>, <<1, -1, -1>>, <<-1, 1, -1>>, <<-1, -1, -1>> >> >>

\* a voxel coordinate or length in tenths of a voxel
Tenths(n) == 10 * n

\* the 8 vec3 pushed for one quad: 4 x (vertex pos+0.5f*corner in tenths, normal)
QuadData(pos, d) ==
    Concat([n \in 1..4 |-> <<VAdd(VScale(10, pos), VScale(5, Corners[d][n])), Dirs[d]>>],
           1, 5)

\* the neighbour test guarding the quad of direction d
NeighbourClampedOpen(f, offset, pos, d) ==
    LET q == VAdd(pos, Dirs[d])
    IN  IF \A a \in 1..3 : q[a] >= offset[a] /\ q[a] < offset[a] + chunksize
        THEN world_function(f, q) >= threshold
        ELSE FALSE

NeighbourOpen(f, offset, pos, d) == world_function(f, VAdd(pos, Dirs[d])) >= threshold

BlockQuadsLeq(f, offset, pos) ==
    IF world_function(f, pos) <= threshold
    THEN Concat([d \in 1..6 |->
                   IF NeighbourOpen(f, offset, pos, d) THEN QuadData(pos, d) ELSE <<>>], 1, 7)
    ELSE <<>>

\* the body of the x,y,z loop for one block
BlockQuads(f, offset, pos) ==
    IF world_function(f, pos) < threshold
    THEN Concat([d \in 1..6 |->
                   IF NeighbourOpen(f, offset, pos, d) THEN QuadData(pos, d) ELSE <<>>], 1, 7)
    ELSE <<>>

\* the n-th block of the x,y,z loop nest (x outermost, z innermost)
BlockPos(offset, n) ==
    VAdd(<<n \div (chunksize * chunksize), (n \div chunksize) % chunksize, n % chunksize>>,
         offset)

NumBlocks == chunksize * chunksize * chunksize

\* std::vector<glm::vec3> vertexData after the loop nest
VertexData(f, offset) ==
    Concat([n \in 0..(NumBlocks - 1) |-> BlockQuads(f, offset, BlockPos(offset, n))],
           0, NumBlocks)

\* chunk.quadcount = vertexData.size()/8
QuadCount(vertexData) == Len(vertexData) \div 8

\* the e-th (i,j,k) of the chunk loop nest (i outermost, k innermost)
GridSide == 2 * chunkrange
NumChunks == GridSide * GridSide * GridSide
GridCoord(e) ==
    <<e \div (GridSide * GridSide) - chunkrange,
      ((e \div GridSide) % GridSide) - chunkrange,
      (e % GridSide) - chunkrange>>

OffsetUnscaled(coord) == coord

\* glm::vec3 offset = chunksize * glm::vec3(i,j,k)
Offset(coord) == VScale(chunksize, coord)

\* the corners of the bounding cube in the order of boundingVertexData, lines 505-542:
\* 1 where the coordinate is offset+chunksize-0.5f, 0 where it is offset-0.5f
BoundingCorners ==
    << <<1, 1, 1>>, <<0, 1, 1>>, <<1, 0, 1>>, <<0, 0, 1>>,
       <<1, 1, 1>>, <<1, 0, 1>>, <<1, 1, 0>>, <<1, 0, 0>>,
       <<1, 1, 1>>, <<1, 1, 0>>, <<0, 1, 1>>, <<0, 1, 0>>,
       <<1, 1, 0>>, <<1, 0, 0>>, <<0, 1, 0>>, <<0, 0, 0>>,
       <<0, 1, 1>>, <<0, 1, 0>>, <<0, 0, 1>>, <<0, 0, 0>>,
       <<1, 0, 1>>, <<0, 0, 1>>, <<1, 0, 0>>, <<0, 0, 0>> >>

\* GLfloat boundingVertexData[], in tenths
BoundingVertexData(offset) ==
    [n \in 1..24 |->
        VAdd(VAdd(VScale(10, offset), VScale(Tenths(chunksize), BoundingCorners[n])),
             <<-5, -5, -5>>)]

\* chunk.center = offset + 0.5f*chunksize, in tenths
Center(offset) == VAdd(VScale(10, offset), <<5 * chunksize, 5 * chunksize, 5 * chunksize>>)

(***************************************************************************)
(* Program state                                                           *)
(***************************************************************************)
VARIABLES
    pc,             \* position of main: "extract", "loop", "events", "peel", "draw", "teardown", "done"
    field,          \* the scalar field world_function samples
    ext,            \* number of (i,j,k) iterations of the chunk loop done
    chunks,         \* std::vector<Chunk> chunks
    glNames,        \* GL object names handed out so far, per name space
    glBuffers,      \* the vertex data uploaded to the buffer objects, by name
    glIsQuery,      \* the names of queries[] that glBeginQuery has made query objects
    userdata,       \* struct UserData
    mousexy,        \* int mousex, mousey of main
    queries,        \* GLuint queries[querycount]
    current_query,  \* int current_query
    position,       \* glm::vec3 position (tenths)
    rotation,       \* glm::mat4 rotation (its 3x3 part)
    i,              \* size_t i of the peel loop
    maxdist,        \* float maxdist of the peel loop
    band,           \* number of peel-loop iterations completed in this frame
    frame,          \* index of the frame last begun (-1 before the first)
    issuedAt,       \* per timer query name, the frame of its last glBeginQuery
    samples,        \* what the GPU answers for this frame's occlusion queries
    log,            \* the GL calls and loop iterations of the frame last begun
    deleted,        \* the glDelete* calls of the teardown
    window,         \* GLWTWindow *window: "none", "open" or "destroyed"
    status,         \* the value main has returned, -1 while it runs
    cerr,           \* what has been written to std::cerr
    error,          \* whether the last glGetError (line 745) returned an error
    glerror,        \* whether the GL has an error flag set that no glGetError has fetched
    inflight        \* the timer queries begun whose result has not been read back

\* the state of the process and of the GL error and timer machinery
procvars == <<window, status, cerr>>
glvars == <<error, glerror, inflight>>

vars == <<pc, field, ext, chunks, glNames, glBuffers, glIsQuery, userdata, mousexy,
          queries, current_query, position, rotation, i, maxdist, band,
          frame, issuedAt, samples, log, deleted, procvars, glvars>>

(***************************************************************************)
(* Start of main: GLWT, window, GLXW, the two shader programs (lines       *)
(* 172-350)                                                                *)
(***************************************************************************)
\* a failed start: the diagnostic is written and main returns 1
Fails(diagnostic, win) ==
    /\ cerr' = Append(cerr, diagnostic)
    /\ window' = win
    /\ status' = 1
    /\ pc' = "exit"

\* what the start leaves alone
StartFrame ==
    UNCHANGED <<glvars, field, ext, chunks, glNames, glBuffers, glIsQuery, userdata, mousexy,
                queries, current_query, position, rotation, i, maxdist, band, frame,
                issuedAt, samples, log, deleted>>

\* lines 196-200
GlwtInit ==
    /\ pc = "glwtInit"
    /\ \/ pc' = "glwtWindowCreate" /\ UNCHANGED procvars
       \/ Fails(<<"failed to init GLWT", "">>, window)
    /\ StartFrame

\* lines 214-221
WindowCreate ==
    /\ pc = "glwtWindowCreate"
    /\ \/ pc' = "glxwInit" /\ window' = "open" /\ UNCHANGED <<status, cerr>>
       \/ Fails(<<"failed to open window", "">>, window)
    /\ StartFrame

\* lines 223-229
GlxwInit ==
    /\ pc = "glxwInit"
    /\ \/ pc' = "vertex_shader" /\ UNCHANGED procvars
       \/ Fails(<<"failed to init GLXW", "">>, "destroyed")
    /\ StartFrame

\* the shader and program objects in the order main creates them, and what follows
StartSteps ==
    << "vertex_shader", "fragment_shader", "shader_program",
       "query_vertex_shader", "query_fragment_shader", "query_shader_program", "extract" >>

StepAfter(step) == StartSteps[(CHOOSE n \in 1..6 : StartSteps[n] = step) + 1]

\* glCompileShader and if(!check_shader_compile_status(..)) return 1; lines 265-285
\* and 319-339: the info log is written and main returns 1 with the window open
CompileShader ==
    /\ pc \in {"vertex_shader", "fragment_shader", "query_vertex_shader", "query_fragment_shader"}
    /\ \/ pc' = StepAfter(pc) /\ UNCHANGED procvars
       \/ Fails(<<"shader info log", pc>>, window)
    /\ StartFrame

\* glLinkProgram and check_program_link_status(..); lines 287-299 and 341-353:
\* on a failed link the info log is written; the value returned is not used
LinkProgram ==
    /\ pc \in {"shader_program", "query_shader_program"}
    /\ \/ UNCHANGED procvars
       \/ cerr' = Append(cerr, <<"program info log", pc>>) /\ UNCHANGED <<window, status>>
    /\ pc' = StepAfter(pc)
    /\ StartFrame

(***************************************************************************)
(* The chunk loop: one iteration builds one chunk                          *)
(***************************************************************************)
\* glGen*(1, &name): the next unused name of the name space
GenName(names, space) == names[space] + 1

\* the Chunk built by the iteration for grid coordinate coord
BuildChunk(f, coord, names) ==
    LET offset     == Offset(coord)
        vertexData == VertexData(f, offset)
    IN  [vao          |-> names.vao + 1,
         vbo          |-> names.buffer + 1,
         ibo          |-> names.buffer + 2,
         bounding_vao |-> names.vao + 2,
         bounding_vbo |-> names.buffer + 3,
         bounding_ibo |-> names.buffer + 4,
         query        |-> GenName(names, "query"),
         quadcount    |-> QuadCount(vertexData),
         center       |-> Center(offset)]

ExtractChunk ==
    /\ pc = "extract"
    /\ ext < NumChunks
    /\ LET coord      == GridCoord(ext)
           offset     == Offset(coord)
           vertexData == VertexData(field, offset)
           chunk      == BuildChunk(field, coord, glNames)
       IN  /\ chunks' = Append(chunks, chunk)
           /\ glBuffers' = glBuffers @@ (chunk.vbo :> vertexData)
                               @@ (chunk.bounding_vbo :> BoundingVertexData(offset))
           /\ glNames' = [vao |-> glNames.vao + 2, buffer |-> glNames.buffer + 4,
                          query |-> glNames.query + 1]
    /\ ext' = ext + 1
    /\ UNCHANGED <<procvars, glvars, pc, field, glIsQuery, userdata, mousexy, queries, current_query,
                   position, rotation, i, maxdist, band, frame, issuedAt,
                   samples, log, deleted>>

\* An iteration of the chunk loop in which glGenQueries (line 565) generates no name
\* and sets a GL error: chunk.query keeps the indeterminate value of the
\* uninitialised Chunk, here 0 or the name of an earlier query.  Nothing in the loop
\* tests for the failure.  The model follows runs with at most one such failure.
ExtractChunkFails ==
    /\ pc = "extract"
    /\ ext < NumChunks
    /\ ~glerror
    /\ \E garbage \in {0, 1} :
          LET chunk == [BuildChunk(field, GridCoord(ext), glNames) EXCEPT !.query = garbage]
          IN  /\ chunks' = Append(chunks, chunk)
              /\ glBuffers' = glBuffers
                      @@ (chunk.vbo :> VertexData(field, Offset(GridCoord(ext))))
                      @@ (chunk.bounding_vbo :> BoundingVertexData(Offset(GridCoord(ext))))
    /\ glNames' = [glNames EXCEPT !.vao = @ + 2, !.buffer = @ + 4]
    /\ glerror' = TRUE
    /\ ext' = ext + 1
    /\ UNCHANGED <<procvars, error, inflight, pc, field, glIsQuery, userdata, mousexy, queries,
                   current_query, position, rotation, i, maxdist, band, frame, issuedAt,
                   samples, log, deleted>>

\* lines 574-601: timer query setup and the initial camera / user data
TimerSetup ==
    /\ pc = "extract"
    /\ ext = NumChunks
    /\ queries' = [n \in 0..(querycount - 1) |-> glNames.query + 1 + n]
    /\ glNames' = [glNames EXCEPT !.query = @ + querycount]
    /\ current_query' = 0
    /\ userdata' = [userdata EXCEPT !.occlusion_cull = TRUE,
                                    !.move = [up |-> 0, right |-> 0, forward |-> 0, roll |-> 0],
                                    !.mouse = <<0, 0>>]
    /\ mousexy' = <<0, 0>>
    /\ pc' = "loop"
    /\ UNCHANGED <<procvars, glvars, field, ext, chunks, glBuffers, glIsQuery, position, rotation, i,
                   maxdist, band, frame, issuedAt, samples, log, deleted>>

(***************************************************************************)
(* The frame loop: loop head and event pump (lines 602-610, callbacks      *)
(* lines 57-108)                                                           *)
(***************************************************************************)
LoopHeadUnguarded(frames) ==
    /\ pc = "loop"
    /\ frame + 1 < frames
    /\ pc' = "events"
    /\ i' = 0
    /\ maxdist' = chunksize
    /\ band' = 0
    /\ samples' = "all"
    /\ log' = <<>>
    /\ UNCHANGED <<procvars, glvars, field, ext, chunks, glNames, glBuffers, glIsQuery, userdata, mousexy,
                   queries, current_query, position, rotation, frame, issuedAt, deleted>>

\* while(userdata.running) taken; the time step; glwtEventHandle(0) entered.
\* i, maxdist and what the model records of the previous frame go out of scope.
LoopHeadUpTo(frames) ==
    /\ pc = "loop"
    /\ userdata.running
    /\ frame + 1 < frames
    /\ pc' = "events"
    /\ i' = 0
    /\ maxdist' = chunksize
    /\ band' = 0
    /\ samples' = "all"
    /\ log' = <<>>
    /\ UNCHANGED <<procvars, glvars, field, ext, chunks, glNames, glBuffers, glIsQuery, userdata, mousexy,
                   queries, current_query, position, rotation, frame, issuedAt, deleted>>

LoopHead == LoopHeadUpTo(MaxFrames)

LoopHeadRing == LoopHeadUpTo(RingFrames)

KeyEffectAnyState(ud, down, keysym) ==
    LET u1 == IF keysym = "ESCAPE" THEN [ud EXCEPT !.running = FALSE] ELSE ud
        u2 == IF keysym = "SPACE"
              THEN [u1 EXCEPT !.occlusion_cull = ~u1.occlusion_cull] ELSE u1
    IN  CASE keysym = "W" -> [u2 EXCEPT !.move.forward = down]
          [] keysym = "S" -> [u2 EXCEPT !.move.forward = -down]
          [] keysym = "D" -> [u2 EXCEPT !.move.right = down]
          [] keysym = "A" -> [u2 EXCEPT !.move.right = -down]
          [] keysym = "Q" -> [u2 EXCEPT !.move.roll = down]
          [] keysym = "E" -> [u2 EXCEPT !.move.roll = -down]
          [] OTHER        -> u2

\* the effect of key_callback on *userdata
KeyEffect(ud, down, keysym) ==
    LET u1 == IF keysym = "ESCAPE" THEN [ud EXCEPT !.running = FALSE] ELSE ud
        u2 == IF keysym = "SPACE" /\ down # 0
              THEN [u1 EXCEPT !.occlusion_cull = ~u1.occlusion_cull] ELSE u1
    IN  CASE keysym = "W" -> [u2 EXCEPT !.move.forward = down]
          [] keysym = "S" -> [u2 EXCEPT !.move.forward = -down]
          [] keysym = "D" -> [u2 EXCEPT !.move.right = down]
          [] keysym = "A" -> [u2 EXCEPT !.move.right = -down]
          [] keysym = "Q" -> [u2 EXCEPT !.move.roll = down]
          [] keysym = "E" -> [u2 EXCEPT !.move.roll = -down]
          [] OTHER        -> u2

\* glwtEventHandle(0) calls one callback
Dispatched ==
    /\ pc = "events"
    /\ UNCHANGED <<procvars, glvars, pc, field, ext, chunks, glNames, glBuffers, glIsQuery, mousexy, queries,
                   current_query, position, rotation, i, maxdist, band, frame, issuedAt,
                   samples, log, deleted>>

KeyCallback(keys) ==
    /\ Dispatched
    /\ \E down \in {0, 1}, keysym \in keys : userdata' = KeyEffect(userdata, down, keysym)

key_callback == KeyCallback({"ESCAPE", "SPACE", "W", "OTHER"})

\* the keys that leave the camera at rest
key_callback_rest == KeyCallback({"ESCAPE", "SPACE", "OTHER"})

close_callback ==
    /\ Dispatched
    /\ userdata' = [userdata EXCEPT !.running = FALSE]

error_callback ==
    /\ Dispatched
    /\ userdata' = [userdata EXCEPT !.running = FALSE]

motion_callback ==
    /\ Dispatched
    /\ \E x \in {0, 1} : userdata' = [userdata EXCEPT !.mouse = <<x, 0>>]

(***************************************************************************)
(* Camera, projection and the distance order (lines 120-130, 612-658)      *)
(***************************************************************************)
\* camera positions the model moves between (tenths): the origin; the center of
\* chunk (0,0,0), at distance exactly chunksize from three other centers; a point
\* at distance exactly chunksize from that center, off the view axis; a point at
\* eight different distances from the centers; a point several bands away
Positions ==
    { <<0, 0, 0>>,
      <<5 * chunksize, 5 * chunksize, 5 * chunksize>>,
      <<5 * chunksize, -3 * chunksize, -chunksize>>,
      <<35, 5, 15>>,
      <<50 * chunksize, 0, 0>> }

\* camera orientations: looking down -z (the initial one), +z, and a quarter turn
Rotations ==
    { << <<1, 0, 0>>, <<0, 1, 0>>, <<0, 0, 1>> >>,
      << <<-1, 0, 0>>, <<0, 1, 0>>, <<0, 0, -1>> >>,
      << <<0, 0, -1>>, <<0, 1, 0>>, <<1, 0, 0>> >> }

MatVec(m, v) == <<Dot(m[1], v), Dot(m[2], v), Dot(m[3], v)>>

\* ViewProjection*vec4(center,1) for Projection = perspective(90, 4/3, ..) and
\* View = rotation*translate(-position): x = 0.75*v.x, y = v.y, w = -v.z with
\* v = rotation*(center-position).  The components are returned in tenths, times 4.
Projected(rot, pos, center) ==
    LET v == MatVec(rot, VSub(center, pos))
    IN  [x |-> 3 * v[1], y |-> 4 * v[2], w |-> -4 * v[3]]

DistLessEq(a, b, m) == Dist2(a, b) <= Tenths(m) * Tenths(m)

\* glm::distance(a, b) < m, for a, b in tenths and m in voxels
DistLess(a, b, m) == Dist2(a, b) < Tenths(m) * Tenths(m)
\* glm::distance(a, b) > m
DistGreater(a, b, m) == Dist2(a, b) > Tenths(m) * Tenths(m)

DistancePredFarther(pos, a, b) == Dist2(pos, a.center) > Dist2(pos, b.center)

\* DistancePred(pos)(a, b)
DistancePred(pos, a, b) == Dist2(pos, a.center) < Dist2(pos, b.center)

\* s sorted by a strict weak order, equivalent elements in their order in s;
\* less[m][n] tells whether s[m] compares less than s[n].  The element at n goes
\* behind the elements that compare less and the equivalent ones before n.
StableSort(s, less) ==
    LET rank == [n \in 1..Len(s) |->
                   Cardinality({m \in 1..Len(s) :
                       \/ less[m][n]
                       \/ m < n /\ ~less[n][m]}) + 1]
    IN  [r \in 1..Len(s) |-> s[CHOOSE n \in 1..Len(s) : rank[n] = r]]

Reverse(s) == [n \in 1..Len(s) |-> s[Len(s) + 1 - n]]

\* the chunks of s in the order they were created (query names grow with creation)
CreationOrder(s) ==
    StableSort(s, [m \in 1..Len(s) |-> [n \in 1..Len(s) |-> s[m].query < s[n].query]])

\* the comparisons DistancePred(pos) makes between the elements of s
DistanceLess(s, pos) ==
    [m \in 1..Len(s) |-> [n \in 1..Len(s) |-> DistancePred(pos, s[m], s[n])]]

SortOutcomesCentersOnly(s, pos) ==
    LET created == CreationOrder(s)
        sorted  == StableSort(created, DistanceLess(created, pos))
    IN  {[n \in 1..Len(s) |-> [s[n] EXCEPT !.center = sorted[n].center]]}

\* std::sort(chunks.begin(), chunks.end(), DistancePred(position)): the order of
\* equidistant chunks is unspecified; the model puts them in creation order or in
\* reversed creation order.
SortOutcomes(s, pos) ==
    LET created == CreationOrder(s)
    IN  {StableSort(created, DistanceLess(created, pos)),
         StableSort(Reverse(created), DistanceLess(Reverse(created), pos))}

(***************************************************************************)
(* The GL calls of one frame, as log entries                               *)
(***************************************************************************)
NoChunk == <<>>

Entry(op, target, id, arg, chunk, b, pass, rejected, passed, gl) ==
    [op |-> op, target |-> target, id |-> id, arg |-> arg, mode |-> "", chunk |-> chunk,
     band |-> b, pass |-> pass, rejected |-> rejected, passed |-> passed, gl |-> gl]

WithMode(e, mode) == [e EXCEPT !.mode = mode]

\* render state set at lines 673-678
OcclusionState ==
    [cull_face |-> FALSE, depth_mask |-> FALSE, color_mask |-> FALSE,
     program |-> "query_shader_program"]
DrawStateMasksLeft ==
    [cull_face |-> TRUE, depth_mask |-> FALSE, color_mask |-> FALSE,
     program |-> "shader_program"]

\* render state set at lines 701-706
DrawState ==
    [cull_face |-> TRUE, depth_mask |-> TRUE, color_mask |-> TRUE,
     program |-> "shader_program"]

\* what the GPU reports for a chunk's bounding box in a frame
SampleModes == {"all", "none", "some"}
SamplesPassed(mode, c) ==
    CASE mode = "all"  -> TRUE
      [] mode = "none" -> FALSE
      [] mode = "some" -> c.center[1] > 0

\* the frustum test of lines 682-685 and 710-713
FrustumRejectGeq(c, pos, rot) ==
    LET projected == Projected(rot, pos, c.center)
    IN  /\ ~DistLess(c.center, pos, chunksize)
        /\ Max(Abs(projected.x), Abs(projected.y)) > projected.w + 4 * Tenths(chunksize)

FrustumReject(c, pos, rot) ==
    LET projected == Projected(rot, pos, c.center)
    IN  /\ DistGreater(c.center, pos, chunksize)
        /\ Max(Abs(projected.x), Abs(projected.y)) > projected.w + 4 * Tenths(chunksize)

(***************************************************************************)
(* float maxdist: a binary floating-point number with round-to-nearest,    *)
(* ties-to-even.  binary32 keeps 24 significant bits; the model keeps      *)
(* FloatMantissa of them, which scales down the value from which           *)
(* maxdist += 2*chunksize no longer changes maxdist, and nothing else:     *)
(* sums below 2^FloatMantissa are exact.                                   *)
(***************************************************************************)
FloatMantissa == 6

RECURSIVE UlpFrom(_, _)
UlpFrom(x, u) == IF x < u * 2^FloatMantissa THEN u ELSE UlpFrom(x, 2 * u)

\* the spacing of the floats around the nonnegative integer x (1 where every
\* integer is representable)
Ulp(x) == UlpFrom(x, 1)

\* x rounded to the nearest float, ties to the even significand
FloatRound(x) ==
    LET u == Ulp(x)
        q == x \div u
        r == x % u
    IN  IF 2 * r < u THEN q * u
        ELSE IF 2 * r > u THEN (q + 1) * u
        ELSE IF q % 2 = 0 THEN q * u
        ELSE (q + 1) * u

\* a + b in float arithmetic, as in maxdist += 2*chunksize (line 728)
FloatAdd(a, b) == FloatRound(a + b)

\* peel iterations the model follows within one frame
MaxBands == 300

RECURSIVE BandEnd(_, _, _, _)
\* the j at which a for(;j<chunks.size() && distance(chunks[j].center, position)<maxdist;++j)
\* loop started at j stops
BandEnd(chs, pos, md, j) ==
    IF j < Len(chs) /\ DistLess(chs[j + 1].center, pos, md)
    THEN BandEnd(chs, pos, md, j + 1)
    ELSE j

OcclusionIterUnended(c, pos, rot, b, mode) ==
    IF FrustumReject(c, pos, rot)
    THEN << Entry("iter", "", 0, 0, c.center, b, "occlusion", TRUE, FALSE, OcclusionState) >>
    ELSE << Entry("iter", "", 0, 0, c.center, b, "occlusion", FALSE, FALSE, OcclusionState),
            Entry("glBeginQuery", "GL_ANY_SAMPLES_PASSED", c.query, 0, c.center, b,
                  "occlusion", FALSE, FALSE, OcclusionState),
            Entry("glBindVertexArray", "", c.bounding_vao, 0, c.center, b,
                  "occlusion", FALSE, FALSE, OcclusionState),
            Entry("glDrawElements", "", c.bounding_vao, 6 * 6, c.center, b,
                  "occlusion", FALSE, FALSE, OcclusionState) >>

OcclusionIterUntested(c, pos, rot, b, mode) ==
    << Entry("iter", "", 0, 0, c.center, b, "occlusion", FALSE, FALSE, OcclusionState),
       Entry("glBeginQuery", "GL_ANY_SAMPLES_PASSED", c.query, 0, c.center, b,
             "occlusion", FALSE, FALSE, OcclusionState),
       Entry("glBindVertexArray", "", c.bounding_vao, 0, c.center, b,
             "occlusion", FALSE, FALSE, OcclusionState),
       Entry("glDrawElements", "", c.bounding_vao, 6 * 6, c.center, b,
             "occlusion", FALSE, FALSE, OcclusionState),
       Entry("glEndQuery", "GL_ANY_SAMPLES_PASSED", c.query, 0, c.center, b,
             "occlusion", FALSE, SamplesPassed(mode, c), OcclusionState) >>

\* one iteration of the occlusion loop, lines 680-696
OcclusionIter(c, pos, rot, b, mode) ==
    IF FrustumReject(c, pos, rot)
    THEN << Entry("iter", "", 0, 0, c.center, b, "occlusion", TRUE, FALSE, OcclusionState) >>
    ELSE << Entry("iter", "", 0, 0, c.center, b, "occlusion", FALSE, FALSE, OcclusionState),
            Entry("glBeginQuery", "GL_ANY_SAMPLES_PASSED", c.query, 0, c.center, b,
                  "occlusion", FALSE, FALSE, OcclusionState),
            Entry("glBindVertexArray", "", c.bounding_vao, 0, c.center, b,
                  "occlusion", FALSE, FALSE, OcclusionState),
            Entry("glDrawElements", "", c.bounding_vao, 6 * 6, c.center, b,
                  "occlusion", FALSE, FALSE, OcclusionState),
            Entry("glEndQuery", "GL_ANY_SAMPLES_PASSED", c.query, 0, c.center, b,
                  "occlusion", FALSE, SamplesPassed(mode, c), OcclusionState) >>

\* the query a draw of chunk c is made conditional on, line 717
ConditionQueryStale(chs, c) == chs[1].query

ConditionQuery(chs, c) == c.query

DrawCallsAlwaysScoped(chs, c, b, cull) ==
    << Entry("iter", "", 0, 0, c.center, b, "draw", FALSE, FALSE, DrawState),
       WithMode(Entry("glBeginConditionalRender", "", ConditionQuery(chs, c),
                      0, c.center, b, "draw", FALSE, FALSE, DrawState),
                "GL_QUERY_BY_REGION_WAIT"),
       Entry("glBindVertexArray", "", c.vao, 0, c.center, b, "draw", FALSE, FALSE,
             DrawState),
       Entry("glDrawElements", "", c.vao, 6 * c.quadcount, c.center, b, "draw",
             FALSE, FALSE, DrawState),
       Entry("glEndConditionalRender", "", 0, 0, c.center, b, "draw", FALSE,
             FALSE, DrawState) >>

DrawCallsUnclosed(chs, c, b, cull) ==
         << Entry("iter", "", 0, 0, c.center, b, "draw", FALSE, FALSE, DrawState) >>
         \o (IF cull
             THEN << WithMode(Entry("glBeginConditionalRender", "", ConditionQuery(chs, c),
                                    0, c.center, b, "draw", FALSE, FALSE, DrawState),
                              "GL_QUERY_BY_REGION_WAIT") >>
             ELSE <<>>)
         \o << Entry("glBindVertexArray", "", c.vao, 0, c.center, b, "draw", FALSE, FALSE,
                     DrawState),
               Entry("glDrawElements", "", c.vao, 6 * c.quadcount, c.center, b, "draw",
                     FALSE, FALSE, DrawState) >>

\* the calls of one iteration of the draw loop that gets past the frustum test,
\* lines 715-725
DrawCalls(chs, c, b, cull) ==
         << Entry("iter", "", 0, 0, c.center, b, "draw", FALSE, FALSE, DrawState) >>
         \o (IF cull
             THEN << WithMode(Entry("glBeginConditionalRender", "", ConditionQuery(chs, c),
                                    0, c.center, b, "draw", FALSE, FALSE, DrawState),
                              "GL_QUERY_BY_REGION_WAIT") >>
             ELSE <<>>)
         \o << Entry("glBindVertexArray", "", c.vao, 0, c.center, b, "draw", FALSE, FALSE,
                     DrawState),
               Entry("glDrawElements", "", c.vao, 6 * c.quadcount, c.center, b, "draw",
                     FALSE, FALSE, DrawState) >>
         \o (IF cull
             THEN << Entry("glEndConditionalRender", "", 0, 0, c.center, b, "draw", FALSE,
                           FALSE, DrawState) >>
             ELSE <<>>)

DrawIterUntested(chs, c, pos, rot, b, cull) == DrawCalls(chs, c, b, cull)

DrawIterTestWhenCulling(chs, c, pos, rot, b, cull) ==
    IF cull /\ FrustumReject(c, pos, rot)
    THEN << Entry("iter", "", 0, 0, c.center, b, "draw", TRUE, FALSE, DrawState) >>
    ELSE DrawCalls(chs, c, b, cull)

\* one iteration of the draw loop, lines 708-725
DrawIter(chs, c, pos, rot, b, cull) ==
    IF FrustumReject(c, pos, rot)
    THEN << Entry("iter", "", 0, 0, c.center, b, "draw", TRUE, FALSE, DrawState) >>
    ELSE DrawCalls(chs, c, b, cull)

OcclusionLoopAhead(chs, pos, rot, md, from, b, mode) ==
    Concat([j \in from..(Len(chs) - 1) |-> OcclusionIter(chs[j + 1], pos, rot, b, mode)],
           from, BandEnd(chs, pos, md + 2 * chunksize, from))

\* the occlusion loop of lines 679-696 from chunk index from (0-based)
OcclusionLoop(chs, pos, rot, md, from, b, mode) ==
    Concat([j \in from..(Len(chs) - 1) |-> OcclusionIter(chs[j + 1], pos, rot, b, mode)],
           from, BandEnd(chs, pos, md, from))

\* the draw loop of lines 707-726 from chunk index from (0-based)
DrawLoop(chs, pos, rot, md, from, b, cull) ==
    Concat([j \in from..(Len(chs) - 1) |-> DrawIter(chs, chs[j + 1], pos, rot, b, cull)],
           from, BandEnd(chs, pos, md, from))

(***************************************************************************)
(* The frame: camera update, sort, peel loop, timer read-back              *)
(***************************************************************************)
\* lines 612-664: camera update, matrices, clear, sort, start of the timer query
RenderSetup ==
    /\ pc = "events"
    /\ mousexy' = userdata.mouse
    /\ rotation' \in IF userdata.mouse # mousexy \/ userdata.move.roll # 0
                     THEN Rotations ELSE {rotation}
    /\ position' \in IF userdata.move.forward # 0 \/ userdata.move.right # 0
                        \/ userdata.move.up # 0
                     THEN Positions \cup {position} ELSE {position}
    /\ chunks' \in SortOutcomes(chunks, position')
    /\ i' = 0
    /\ maxdist' = chunksize
    /\ band' = 0
    /\ frame' = frame + 1
    /\ samples' \in IF userdata.occlusion_cull THEN SampleModes ELSE {"all"}
    /\ log' = << Entry("glBeginQuery", "GL_TIME_ELAPSED", queries[current_query], 0,
                       NoChunk, 0, "frame", FALSE, FALSE, DrawState) >>
    /\ glIsQuery' = glIsQuery \cup {queries[current_query]}
    /\ issuedAt' = [issuedAt EXCEPT ![current_query] = frame + 1]
    /\ inflight' = inflight \cup {[slot |-> current_query, frame |-> frame + 1]}
    /\ pc' = "peel"
    /\ UNCHANGED <<procvars, error, glerror, field, ext, glNames, glBuffers, userdata, queries, current_query, deleted>>

DrawStartNoReset(chs, pos, md, from, cull) ==
    IF cull THEN BandEnd(chs, pos, md, from) ELSE from

\* the j the draw loop starts at: size_t j = i (line 669), j = i (line 697)
DrawStart(chs, pos, md, from, cull) == from

\* lines 670-698: the occlusion pass of one peel iteration
OcclusionPass ==
    /\ pc = "peel"
    /\ i # Len(chunks)
    /\ userdata.occlusion_cull
    /\ log' = log \o OcclusionLoop(chunks, position, rotation, maxdist, i, band, samples)
    /\ pc' = "draw"
    /\ UNCHANGED <<procvars, glvars, field, ext, chunks, glNames, glBuffers, glIsQuery, userdata, mousexy, queries,
                   current_query, position, rotation, i, maxdist, band, frame,
                   issuedAt, samples, deleted>>

\* lines 700-728: the draw pass of one peel iteration, then i = j, maxdist += 2*chunksize
DrawPass ==
    /\ \/ pc = "draw"
       \/ pc = "peel" /\ i # Len(chunks) /\ ~userdata.occlusion_cull
    /\ band < MaxBands
    /\ LET j == DrawStart(chunks, position, maxdist, i, userdata.occlusion_cull)
       IN  /\ log' = log \o DrawLoop(chunks, position, rotation, maxdist, j, band,
                                     userdata.occlusion_cull)
           /\ i' = BandEnd(chunks, position, maxdist, j)
    /\ maxdist' = FloatAdd(maxdist, 2 * chunksize)
    /\ band' = band + 1
    /\ pc' = "peel"
    /\ UNCHANGED <<procvars, glvars, field, ext, chunks, glNames, glBuffers, glIsQuery, userdata, mousexy,
                   queries, current_query, position, rotation, frame, issuedAt,
                   samples, deleted>>

\* the slot whose result line 735-738 reads
ReadSlotFirst(cur) == 0

ReadSlotSame(cur) == cur

ReadSlot(cur) == (cur + 1) % querycount

\* current_query = (current_query + 1)%querycount
NextSlotSkip(cur) == (cur + 2) % querycount

NextSlotStuck(cur) == IF cur + 1 < querycount THEN cur + 1 ELSE cur

NextSlot(cur) == (cur + 1) % querycount

TimerTailReadFirst(end, get, valid) == IF valid THEN <<get, end>> ELSE <<end>>

\* lines 732-739: glEndQuery, then the read guarded by glIsQuery
TimerTail(end, get, valid) == IF valid THEN <<end, get>> ELSE <<end>>

ErrorIgnored(ud, err) == ud

\* if(error != GL_NO_ERROR) userdata.running = false; lines 746-749
ErrorCheck(ud, err) == IF err THEN [ud EXCEPT !.running = FALSE] ELSE ud

\* lines 731-752: end of the timer query, read-back, error check, swap
EndFrame ==
    /\ pc = "peel"
    /\ i = Len(chunks)
    /\ LET old == queries[ReadSlot(current_query)]
           end == Entry("glEndQuery", "GL_TIME_ELAPSED", queries[current_query], 0,
                        NoChunk, band, "frame", FALSE, FALSE, DrawState)
           get == Entry("glGetQueryObjectui64v", "GL_QUERY_RESULT", old,
                        issuedAt[ReadSlot(current_query)], NoChunk, band, "frame", FALSE,
                        FALSE, DrawState)
       IN  log' = log \o TimerTail(end, get, old \in glIsQuery)
    /\ current_query' = NextSlot(current_query)
    /\ inflight' = IF queries[ReadSlot(current_query)] \in glIsQuery
                    THEN inflight \ {[slot |-> ReadSlot(current_query),
                                      frame |-> issuedAt[ReadSlot(current_query)]]}
                    ELSE inflight
    /\ error' \in IF glerror THEN {TRUE} ELSE BOOLEAN
    /\ glerror' = FALSE
    /\ userdata' = ErrorCheck(userdata, error')
    /\ pc' = "loop"
    /\ UNCHANGED <<procvars, field, ext, chunks, glNames, glBuffers, glIsQuery, mousexy, queries,
                   position, rotation, i, maxdist, band, frame, issuedAt,
                   samples, deleted>>

ChunkDeletesVboTwice(c) ==
    << <<"vao", c.vao>>, <<"buffer", c.vbo>>, <<"buffer", c.vbo>>,
       <<"vao", c.bounding_vao>>, <<"buffer", c.bounding_vbo>>,
       <<"buffer", c.bounding_ibo>>, <<"query", c.query>> >>

\* the glDelete* calls of lines 757-768, in order
ChunkDeletes(c) ==
    << <<"vao", c.vao>>, <<"buffer", c.vbo>>, <<"buffer", c.ibo>>,
       <<"vao", c.bounding_vao>>, <<"buffer", c.bounding_vbo>>,
       <<"buffer", c.bounding_ibo>>, <<"query", c.query>> >>

\* the shader and program deletions of lines 770-780
ProgramDeletes ==
    << <<"shader", "vertex_shader">>, <<"shader", "fragment_shader">>,
       <<"program", "shader_program">>,
       <<"shader", "query_vertex_shader">>, <<"shader", "query_fragment_shader">>,
       <<"program", "query_shader_program">> >>

\* while(userdata.running) left; lines 755-784
Teardown ==
    /\ pc = "loop"
    /\ ~userdata.running
    /\ deleted' = Concat([n \in 1..Len(chunks) |-> ChunkDeletes(chunks[n])], 1,
                         Len(chunks) + 1)
                    \o [n \in 1..querycount |-> <<"query", queries[n - 1]>>]
                    \o ProgramDeletes
    /\ window' = "destroyed"
    /\ status' = 0
    /\ pc' = "done"
    /\ UNCHANGED <<cerr, glvars, field, ext, chunks, glNames, glBuffers, glIsQuery, userdata, mousexy,
                   queries, current_query, position, rotation, i, maxdist, band,
                   frame, issuedAt, samples, log>>

(***************************************************************************)
(* Specifications                                                          *)
(***************************************************************************)
\* the fields the frame-loop specification extracts its chunks from
FrameFields ==
    { [kind |-> "chunk", v |-> 1, c |-> <<0, 0, 0>>],
      [kind |-> "voxel", v |-> 0, c |-> <<-1, 0, 1>>] }

\* the state at the chunk loop, for a camera position given to the frames
InitAt(fields, positions) ==
    /\ pc = "extract"
    /\ field \in fields
    /\ ext = 0
    /\ chunks = <<>>
    /\ glNames = [vao |-> 0, buffer |-> 0, query |-> 0]
    /\ glBuffers = <<>>
    /\ glIsQuery = {}
    /\ userdata = [running |-> TRUE, occlusion_cull |-> TRUE,
                   move |-> [up |-> 0, right |-> 0, forward |-> 0, roll |-> 0],
                   mouse |-> <<0, 0>>]
    /\ mousexy = <<0, 0>>
    /\ queries = [n \in 0..(querycount - 1) |-> 0]
    /\ current_query = 0
    /\ position \in positions
    /\ rotation = << <<1, 0, 0>>, <<0, 1, 0>>, <<0, 0, 1>> >>
    /\ i = 0
    /\ maxdist = chunksize
    /\ band = 0
    /\ frame = -1
    /\ issuedAt = [n \in 0..(querycount - 1) |-> -1]
    /\ samples = "all"
    /\ log = <<>>
    /\ deleted = <<>>
    /\ window = "open"
    /\ status = -1
    /\ cerr = <<>>
    /\ error = FALSE
    /\ glerror = FALSE
    /\ inflight = {}

\* glm::vec3 position; the camera starts at the origin
InitWith(fields) == InitAt(fields, {<<0, 0, 0>>})

Init == InitWith(FrameFields)

Next ==
    \/ ExtractChunk
    \/ TimerSetup
    \/ LoopHead
    \/ key_callback
    \/ close_callback
    \/ error_callback
    \/ motion_callback
    \/ RenderSetup
    \/ OcclusionPass
    \/ DrawPass
    \/ EndFrame
    \/ Teardown

Spec == Init /\ [][Next]_vars

\* long runs with the camera at rest
NextRing ==
    \/ ExtractChunk
    \/ TimerSetup
    \/ LoopHeadRing
    \/ key_callback_rest
    \/ close_callback
    \/ error_callback
    \/ RenderSetup
    \/ OcclusionPass
    \/ DrawPass
    \/ EndFrame
    \/ Teardown

SpecRing == Init /\ [][NextRing]_vars

\* a camera position (tenths) farther from every chunk than maxdist can grow
FarPosition == <<0, 0, Tenths(2^(FloatMantissa + 4))>>

\* the peel loop as a function of the camera position: frames with the camera at
\* rest at each position of Positions and at FarPosition
InitPeel == InitAt(FrameFields, Positions \cup {FarPosition})

SpecPeel == InitPeel /\ [][NextRing]_vars

\* the chunk extraction alone, over the whole family of fields
InitMesh == InitWith(Fields)

\* main from its first line, with starts and allocations that can fail
InitStart ==
    /\ pc = "glwtInit"
    /\ field \in FrameFields
    /\ ext = 0
    /\ chunks = <<>>
    /\ glNames = [vao |-> 0, buffer |-> 0, query |-> 0]
    /\ glBuffers = <<>>
    /\ glIsQuery = {}
    /\ userdata = [running |-> TRUE, occlusion_cull |-> TRUE,
                   move |-> [up |-> 0, right |-> 0, forward |-> 0, roll |-> 0],
                   mouse |-> <<0, 0>>]
    /\ mousexy = <<0, 0>>
    /\ queries = [n \in 0..(querycount - 1) |-> 0]
    /\ current_query = 0
    /\ position = <<0, 0, 0>>
    /\ rotation = << <<1, 0, 0>>, <<0, 1, 0>>, <<0, 0, 1>> >>
    /\ i = 0
    /\ maxdist = chunksize
    /\ band = 0
    /\ frame = -1
    /\ issuedAt = [n \in 0..(querycount - 1) |-> -1]
    /\ samples = "all"
    /\ log = <<>>
    /\ deleted = <<>>
    /\ window = "none"
    /\ status = -1
    /\ cerr = <<>>
    /\ error = FALSE
    /\ glerror = FALSE
    /\ inflight = {}

NextStart ==
    \/ GlwtInit
    \/ WindowCreate
    \/ GlxwInit
    \/ CompileShader
    \/ LinkProgram
    \/ ExtractChunk
    \/ ExtractChunkFails
    \/ TimerSetup
    \/ LoopHead
    \/ key_callback_rest
    \/ close_callback
    \/ error_callback
    \/ RenderSetup
    \/ OcclusionPass
    \/ DrawPass
    \/ EndFrame
    \/ Teardown

SpecStart == InitStart /\ [][NextStart]_vars

\* main leaves the loop and runs the teardown once while(userdata.running) fails
SpecFair == Init /\ [][Next]_vars /\ WF_vars(Teardown)

\* the steps main takes by itself once a frame has begun
FrameStep == OcclusionPass \/ DrawPass \/ EndFrame \/ Teardown

\* main runs on: glwtEventHandle(0) returns, so main does not stay in the event
\* pump, and a frame that has begun is carried through; long runs with the camera
\* at rest
SpecLive ==
    /\ Init
    /\ [][NextRing]_vars
    /\ WF_vars(FrameStep)
    /\ []<>(pc # "events")

NextMesh == ExtractChunk \/ TimerSetup

SpecMesh == InitMesh /\ [][NextMesh]_vars

(***************************************************************************)
(* Vocabulary of the properties                                            *)
(***************************************************************************)
\* the offset of a chunk, recovered from its center
OffsetOf(c) ==
    <<(c.center[1] - 5 * chunksize) \div 10,
      (c.center[2] - 5 * chunksize) \div 10,
      (c.center[3] - 5 * chunksize) \div 10>>

\* the voxel positions of a chunk
VoxelsOf(c) ==
    LET o == OffsetOf(c)
    IN  (o[1]..(o[1] + chunksize - 1)) \X (o[2]..(o[2] + chunksize - 1))
          \X (o[3]..(o[3] + chunksize - 1))

Solid(p) == world_function(field, p) < threshold
Open(p)  == world_function(field, p) >= threshold

\* the vertex data uploaded for the mesh of chunk c
MeshOf(c) == glBuffers[c.vbo]

\* the four corners (in tenths) of the face of the unit cube around p that looks along d
FaceCorners(p, d) ==
    {VAdd(VScale(10, p), VScale(5, x)) :
        x \in {y \in {-1, 1} \X {-1, 1} \X {-1, 1} : Dot(y, Dirs[d]) = 1}}

\* the k-th quad (0-based) of mesh is the face of voxel p with normal Dirs[d]
IsQuadAt(mesh, k, p, d) ==
    /\ mesh[8 * k + 2] = Dirs[d]
    /\ {mesh[8 * k + 4], mesh[8 * k + 6], mesh[8 * k + 8]} = {Dirs[d]}
    /\ {mesh[8 * k + 1], mesh[8 * k + 3], mesh[8 * k + 5], mesh[8 * k + 7]} = FaceCorners(p, d)

\* the (voxel, direction) pairs of chunk c whose face is exposed
ExposedFaces(c) ==
    {pd \in VoxelsOf(c) \X (1..6) : Solid(pd[1]) /\ Open(VAdd(pd[1], Dirs[pd[2]]))}

(***************************************************************************)
(* C8  Mesher face exposure.  For every extracted chunk, every voxel p of  *)
(* the chunk and every direction d, the uploaded mesh holds exactly one    *)
(* quad with normal d at p when density(p) < threshold and                 *)
(* density(p+d) >= threshold, and none otherwise -- also when p+d lies     *)
(* outside the chunk; the mesh holds nothing else, and quadcount counts    *)
(* its quads.                                                              *)
(***************************************************************************)
C8_FaceExposure ==
    \A n \in 1..Len(chunks) :
        LET c    == chunks[n]
            mesh == MeshOf(c)
            nq   == Len(mesh) \div 8
        IN  /\ Len(mesh) = 8 * nq
            /\ c.quadcount = nq
            /\ nq = Cardinality(ExposedFaces(c))
            /\ \A pd \in VoxelsOf(c) \X (1..6) :
                  Cardinality({k \in 0..(nq - 1) : IsQuadAt(mesh, k, pd[1], pd[2])})
                    = IF pd \in ExposedFaces(c) THEN 1 ELSE 0

\* a chunk has been extracted that has a quad for a face whose neighbour voxel lies
\* outside the chunk, and a solid voxel with a solid neighbour (no quad)
C8_Witness ==
    \E n \in 1..Len(chunks) :
        /\ \E pd \in ExposedFaces(chunks[n]) :
              VAdd(pd[1], Dirs[pd[2]]) \notin VoxelsOf(chunks[n])
        /\ \E pd \in VoxelsOf(chunks[n]) \X (1..6) :
              Solid(pd[1]) /\ Solid(VAdd(pd[1], Dirs[pd[2]]))

(***************************************************************************)
(* C9  Uniform-field property.                                             *)
(* As claimed: a chunk whose voxels are all below threshold, or all at or  *)
(* above threshold, has zero quads whatever the field is outside the chunk.*)
(***************************************************************************)
EntirelySolid(c) == \A p \in VoxelsOf(c) : Solid(p)
EntirelyEmpty(c) == \A p \in VoxelsOf(c) : Open(p)

C9_UniformAsClaimed ==
    \A n \in 1..Len(chunks) :
        (EntirelySolid(chunks[n]) \/ EntirelyEmpty(chunks[n])) => chunks[n].quadcount = 0

\* the voxels outside chunk c that touch one of its six faces
Surroundings(c) ==
    {VAdd(pd[1], Dirs[pd[2]]) : pd \in VoxelsOf(c) \X (1..6)} \ VoxelsOf(c)

(***************************************************************************)
(* C9 as amended.  A chunk whose voxels are all at or above threshold has  *)
(* zero quads whatever the field is outside the chunk; a chunk whose       *)
(* voxels are all below threshold has zero quads exactly when every voxel  *)
(* touching one of its faces from outside is below threshold too, whatever *)
(* the chunk origin.                                                       *)
(***************************************************************************)
C9_Uniform ==
    \A n \in 1..Len(chunks) :
        LET c == chunks[n]
        IN  /\ EntirelyEmpty(c) => c.quadcount = 0 /\ MeshOf(c) = <<>>
            /\ EntirelySolid(c) =>
                  (c.quadcount = 0 <=> \A q \in Surroundings(c) : Solid(q))

\* extracted: an empty chunk beside a solid voxel, a solid chunk enclosed in solid
\* voxels, and a solid chunk with an exposed boundary face
C9_Witness ==
    /\ \E n \in 1..Len(chunks) :
          EntirelyEmpty(chunks[n]) /\ \E q \in Surroundings(chunks[n]) : Solid(q)
    /\ \E n \in 1..Len(chunks) :
          EntirelySolid(chunks[n]) /\ \A q \in Surroundings(chunks[n]) : Solid(q)
    /\ \E n \in 1..Len(chunks) :
          EntirelySolid(chunks[n]) /\ chunks[n].quadcount > 0

(***************************************************************************)
(* C10  Example scenario.  When the field is solid exactly at the voxels   *)
(* of chunk (0,0,0) of the chunkrange = 1 world, exactly one extracted     *)
(* chunk has quadcount > 0 once all chunks are extracted; and in every     *)
(* field a chunk without a solid voxel has quadcount 0, also beside a      *)
(* solid chunk.                                                            *)
(***************************************************************************)
\* the voxels of the world and of the layer around it
WorldAndMargin ==
    LET r == (-chunkrange * chunksize - 1)..(chunkrange * chunksize)
    IN  r \X r \X r

SolidExactlyInChunk0 ==
    \A p \in WorldAndMargin :
        Solid(p) <=> \A a \in 1..3 : p[a] >= 0 /\ p[a] < chunksize

C10_Scenario ==
    /\ \A n \in 1..Len(chunks) :
          (\A p \in VoxelsOf(chunks[n]) : ~Solid(p)) => chunks[n].quadcount = 0
    /\ (chunkrange = 1 /\ ext = NumChunks /\ SolidExactlyInChunk0) =>
          /\ Cardinality({n \in 1..Len(chunks) : chunks[n].quadcount > 0}) = 1
          /\ \A n \in 1..Len(chunks) :
                chunks[n].quadcount > 0 <=> OffsetOf(chunks[n]) = <<0, 0, 0>>

\* the scenario's world is extracted, and a chunk without a solid voxel lies beside
\* the solid chunk
C10_Witness ==
    /\ ext = NumChunks
    /\ SolidExactlyInChunk0
    /\ \E n \in 1..Len(chunks) :
          /\ \A p \in VoxelsOf(chunks[n]) : ~Solid(p)
          /\ \E q \in Surroundings(chunks[n]) : Solid(q)

(***************************************************************************)
(* Vocabulary of the frame properties.  log holds the calls of the current *)
(* frame in program order.                                                 *)
(***************************************************************************)
\* the frame numbered frame has run to its end
FrameDone == pc \in {"loop", "done"} /\ frame >= 0

Cull == userdata.occlusion_cull

\* the loop iterations of a pass that looked at the chunk with this center
Visits(center, pass) ==
    {k \in DOMAIN log : log[k].op = "iter" /\ log[k].chunk = center /\ log[k].pass = pass}

RECURSIVE BandFrom(_, _)
BandFrom(center, b) ==
    IF Dist2(center, position) < Tenths((2 * b + 1) * chunksize) * Tenths((2 * b + 1) * chunksize)
    THEN b
    ELSE BandFrom(center, b + 1)

\* the band of a chunk: the least b with distance(center, position) < chunksize*(2b+1)
BandOf(center) == BandFrom(center, 0)

IsMeshDraw(e) == e.op = "glDrawElements" /\ e.pass = "draw"
IsOcclusionBegin(e) == e.op = "glBeginQuery" /\ e.target = "GL_ANY_SAMPLES_PASSED"

\* the frustum test as the documentation states it, on a center in tenths:
\* distance(center, P) > S and max(|x|, |y|) > w + S for the projected center
Rejects(center) ==
    LET v == MatVec(rotation, VSub(center, position))
    IN  /\ Dist2(center, position) > Tenths(chunksize) * Tenths(chunksize)
        /\ Max(Abs(3 * v[1]), Abs(4 * v[2])) > 4 * Tenths(chunksize) - 4 * v[3]

Centers(s) == [n \in 1..Len(s) |-> s[n].center]
LogCenters(s) == [n \in 1..Len(s) |-> s[n].chunk]

(***************************************************************************)
(* C1  Band coverage.  In a frame every chunk is visited by the draw pass  *)
(* of exactly one band, the band its distance puts it in, and with culling *)
(* enabled by the occlusion pass of exactly that band; without culling by  *)
(* no occlusion pass.  During the frame no chunk is visited twice.         *)
(***************************************************************************)
C1_BandCoverage ==
    \A n \in 1..Len(chunks) :
        LET c == chunks[n].center
            d == Visits(c, "draw")
            o == Visits(c, "occlusion")
        IN  /\ Cardinality(d) <= 1
            /\ Cardinality(o) <= 1
            /\ \A k \in d \cup o : log[k].band = BandOf(c)
            /\ FrameDone =>
                  /\ Cardinality(d) = 1
                  /\ Cardinality(o) = IF Cull THEN 1 ELSE 0

\* a frame with culling has ended whose chunks lie in more than one band, past an
\* empty band
C1_Witness ==
    /\ FrameDone
    /\ Cull
    /\ \E n, m \in 1..Len(chunks) :
          /\ BandOf(chunks[n].center) >= 1
          /\ BandOf(chunks[m].center) > BandOf(chunks[n].center)
          /\ Visits(chunks[m].center, "occlusion") # {}
    /\ \A n \in 1..Len(chunks) : BandOf(chunks[n].center) # 0

(***************************************************************************)
(* C2  Within a band, with culling enabled, every call of the band's       *)
(* occlusion pass precedes every mesh draw of the band; every mesh draw is *)
(* made conditional on the query of the chunk drawn, and that query was    *)
(* begun, had the bounding box drawn and was ended earlier in this frame's *)
(* calls, in the same band.                                                *)
(***************************************************************************)
C2_QueriesBeforeDraws ==
    \A k \in DOMAIN log :
        /\ IsMeshDraw(log[k]) =>
              /\ \A m \in DOMAIN log :
                    (log[m].pass = "occlusion" /\ log[m].band = log[k].band) => m < k
              /\ Cull => log[k - 2].op = "glBeginConditionalRender"
        /\ log[k].op = "glBeginConditionalRender" =>
              /\ \E n \in 1..Len(chunks) :
                    /\ chunks[n].center = log[k].chunk
                    /\ chunks[n].query = log[k].id
                    /\ IsMeshDraw(log[k + 2])
                    /\ log[k + 2].id = chunks[n].vao
              /\ \E b \in 1..(k - 1) :
                    /\ IsOcclusionBegin(log[b])
                    /\ log[b].id = log[k].id
                    /\ log[b].band = log[k].band
                    /\ log[b + 2].op = "glDrawElements"
                    /\ log[b + 3].op = "glEndQuery"
                    /\ log[b + 3].id = log[k].id
                    /\ b + 3 < k

\* two chunks of one later band have had their queries issued and are drawn
\* conditionally
C2_Witness ==
    /\ Cull
    /\ \E k, m \in DOMAIN log :
          /\ log[k].op = "glBeginConditionalRender"
          /\ log[m].op = "glBeginConditionalRender"
          /\ log[k].band = log[m].band
          /\ log[k].band >= 1
          /\ log[k].chunk # log[m].chunk

(***************************************************************************)
(* C3  Across bands, every occlusion query of a chunk of band k+1 is       *)
(* issued after every mesh draw of the chunks of band k, in every frame.   *)
(***************************************************************************)
C3_BandsInOrder ==
    \A k, m \in DOMAIN log :
        (/\ IsMeshDraw(log[k])
         /\ IsOcclusionBegin(log[m])
         /\ \/ BandOf(log[m].chunk) = BandOf(log[k].chunk) + 1
            \/ log[m].band = log[k].band + 1)
        => k < m

\* a chunk of one band has been drawn and the query of a chunk of the next band issued
C3_Witness ==
    \E k, m \in DOMAIN log :
        /\ IsMeshDraw(log[k])
        /\ IsOcclusionBegin(log[m])
        /\ BandOf(log[m].chunk) = BandOf(log[k].chunk) + 1

(***************************************************************************)
(* C4  Culling-disabled equivalence.  At the end of a frame the chunks     *)
(* whose mesh draw was submitted are the chunks that pass the frustum      *)
(* test, in sorted order, whether culling is enabled or not.  With culling *)
(* enabled the chunks rendered are those of them whose query reported a    *)
(* sample passed; without culling all of them are rendered.                *)
(***************************************************************************)
Submitted == LogCenters(SelectSeq(log, IsMeshDraw))

\* the mesh draw at k takes effect: it is unconditional, or the query it is
\* conditional on last ended with a sample passed
Rendered(k) ==
    log[k - 2].op = "glBeginConditionalRender" =>
        \E e \in 1..(k - 1) :
            /\ log[e].op = "glEndQuery"
            /\ log[e].id = log[k - 2].id
            /\ log[e].passed
            /\ \A f \in (e + 1)..(k - 1) :
                  ~(log[f].op = "glEndQuery" /\ log[f].id = log[k - 2].id)

RenderedCenters == {log[k].chunk : k \in {m \in DOMAIN log : IsMeshDraw(log[m]) /\ Rendered(m)}}

C4_CullingEquivalence ==
    FrameDone =>
        /\ Submitted = Centers(SelectSeq(chunks, LAMBDA c : ~Rejects(c.center)))
        /\ RenderedCenters =
              IF Cull
              THEN {chunks[n].center : n \in {m \in 1..Len(chunks) :
                        ~Rejects(chunks[m].center) /\ SamplesPassed(samples, chunks[m])}}
              ELSE Range(Submitted)

\* a frame with culling has ended in which a chunk was rejected by the frustum test,
\* a submitted chunk was not rendered, and a chunk was rendered
C4_Witness ==
    /\ FrameDone
    /\ Cull
    /\ \E n \in 1..Len(chunks) : Rejects(chunks[n].center)
    /\ Range(Submitted) \ RenderedCenters # {}
    /\ RenderedCenters # {}

(***************************************************************************)
(* C5  Query ring.  Every timer result read at frame f is read at a frame  *)
(* f >= querycount-1 and is the result of the query begun at frame         *)
(* f-querycount+1, the query of slot (f+1) mod querycount.                 *)
(***************************************************************************)
Reads == {k \in DOMAIN log : log[k].op = "glGetQueryObjectui64v"}

C6_StaleSkipped ==
    /\ (pc \in {"peel", "draw"} /\ frame <= querycount - 2) =>
          queries[(current_query + 1) % querycount] \notin glIsQuery
    /\ FrameDone =>
          Cardinality(Reads) = IF frame >= querycount - 1 THEN 1 ELSE 0

\* the last frame that skips the read has ended and the loop goes on
C6_Witness ==
    /\ FrameDone
    /\ frame = querycount - 2
    /\ Reads = {}
    /\ userdata.running

(***************************************************************************)
(* C7  Frustum-reject boundary.  A loop iteration rejects its chunk iff    *)
(* distance(center, P) > S and max(|x|,|y|) > w + S; a chunk at distance   *)
(* S or less is never rejected; the occlusion pass and the draw pass       *)
(* decide alike; a rejected chunk gets no call, an accepted one its draw.  *)
(***************************************************************************)
C7_FrustumBoundary ==
    \A k \in DOMAIN log :
        log[k].op = "iter" =>
            /\ log[k].rejected <=> Rejects(log[k].chunk)
            /\ Dist2(log[k].chunk, position) <= Tenths(chunksize) * Tenths(chunksize)
                  => ~log[k].rejected
            /\ \A m \in DOMAIN log :
                  (log[m].op = "iter" /\ log[m].chunk = log[k].chunk)
                      => log[m].rejected = log[k].rejected
            /\ log[k].rejected <=>
                  ~\E m \in DOMAIN log :
                      /\ log[m].op = "glDrawElements"
                      /\ log[m].chunk = log[k].chunk
                      /\ log[m].pass = log[k].pass

\* both passes have looked at a chunk at distance exactly S whose projected center
\* lies outside the margin and kept it, and at a farther chunk and rejected it
C7_Witness ==
    /\ \E k \in DOMAIN log :
          /\ log[k].op = "iter"
          /\ log[k].pass = "draw"
          /\ Visits(log[k].chunk, "occlusion") # {}
          /\ Dist2(log[k].chunk, position) = Tenths(chunksize) * Tenths(chunksize)
          /\ LET v == MatVec(rotation, VSub(log[k].chunk, position))
             IN  Max(Abs(3 * v[1]), Abs(4 * v[2])) > 4 * Tenths(chunksize) - 4 * v[3]
          /\ ~log[k].rejected
    /\ \E k \in DOMAIN log :
          /\ log[k].op = "iter"
          /\ log[k].pass = "draw"
          /\ Visits(log[k].chunk, "occlusion") # {}
          /\ log[k].rejected

(***************************************************************************)
(* C11  Destruction releases every owned GPU resource exactly once.  When  *)
(* main has left the frame loop and run the teardown, each chunk's mesh    *)
(* vao/vbo/ibo, bounding vao/vbo/ibo and query has been deleted exactly    *)
(* once and no name has been deleted twice; nothing is deleted while the   *)
(* frame loop can still run, so no call uses a deleted object.             *)
(***************************************************************************)
HandlesOf(c) ==
    { <<"vao", c.vao>>, <<"buffer", c.vbo>>, <<"buffer", c.ibo>>,
      <<"vao", c.bounding_vao>>, <<"buffer", c.bounding_vbo>>,
      <<"buffer", c.bounding_ibo>>, <<"query", c.query>> }

Deletions(h) == Cardinality({k \in DOMAIN deleted : deleted[k] = h})

C11_DeletedOnce ==
    /\ pc # "done" => deleted = <<>>
    /\ pc = "done" =>
          /\ \A n \in 1..Len(chunks) :
                /\ Cardinality(HandlesOf(chunks[n])) = 7
                /\ \A h \in HandlesOf(chunks[n]) : Deletions(h) = 1
          /\ \A k \in DOMAIN deleted : Deletions(deleted[k]) = 1

\* the teardown has run after a frame that reordered the chunks
C11_Witness ==
    /\ pc = "done"
    /\ frame >= 0
    /\ Len(chunks) = NumChunks
    /\ \E n \in 1..(Len(chunks) - 1) : chunks[n].query > chunks[n + 1].query

(***************************************************************************)
(* C12  As claimed: chunk-store construction fails fatally if a GPU        *)
(* resource allocation fails, and the frame loop is never entered with a   *)
(* partially built world (a chunk whose query is no query name of its own).*)
(***************************************************************************)
PartiallyBuilt ==
    \E n \in 1..Len(chunks) :
        \/ chunks[n].query = 0
        \/ \E m \in 1..Len(chunks) : m # n /\ chunks[m].query = chunks[n].query

C12_AllocationFatalAsClaimed ==
    PartiallyBuilt => (frame = -1 /\ pc \notin {"events", "peel", "draw"})

(***************************************************************************)
(* C13  As claimed: when window creation, a shader compilation or a        *)
(* program link fails, a diagnostic is written and main returns at once    *)
(* with a failure status, no chunk generated and no frame begun; for the   *)
(* draw program and for the query program alike.                           *)
(***************************************************************************)
C13_InitFailureFatalAsClaimed ==
    cerr # <<>> => (pc = "exit" /\ status = 1 /\ chunks = <<>> /\ frame = -1)

(***************************************************************************)
(* C14  Per-frame device errors are terminal but clean.  Once glGetError   *)
(* has returned an error at the end of a frame, running is false, no       *)
(* further frame is begun and nothing is submitted again, and main goes on *)
(* to the teardown: every chunk handle, timer query, shader and program is *)
(* deleted, the window is destroyed and main returns 0.                    *)
(***************************************************************************)
AllDeleted ==
    /\ \A n \in 1..Len(chunks) : \A h \in HandlesOf(chunks[n]) : Deletions(h) = 1
    /\ \A n \in 0..(querycount - 1) : Deletions(<<"query", queries[n]>>) = 1
    /\ \A n \in 1..Len(ProgramDeletes) : Deletions(ProgramDeletes[n]) = 1

C14_DeviceErrorTerminal ==
    /\ [](error => (~userdata.running /\ pc \in {"loop", "done"}))
    /\ []((error /\ pc = "done") => (AllDeleted /\ window = "destroyed" /\ status = 0))
    /\ [][error => (frame' = frame /\ log' = log)]_vars
    /\ (error ~> pc = "done")

\* the second frame ended with a GL error and the teardown has run
C14_Witness == error /\ pc = "done" /\ frame >= 1 /\ Len(log) > 2

(***************************************************************************)
(* C15  The timer-query cursor advances by exactly 1 modulo querycount in  *)
(* every frame, with or without a read: it always lies in                  *)
(* 0..querycount-1, equals f mod querycount from the start of frame f      *)
(* until the frame's advance, and each frame begins exactly one timer      *)
(* query and ends exactly one, the query of slot f mod querycount.         *)
(***************************************************************************)
TimerBegins == {k \in DOMAIN log : log[k].op = "glBeginQuery" /\ log[k].target = "GL_TIME_ELAPSED"}
TimerEnds == {k \in DOMAIN log : log[k].op = "glEndQuery" /\ log[k].target = "GL_TIME_ELAPSED"}

C15_CursorAdvance ==
    /\ current_query \in 0..(querycount - 1)
    /\ pc = "events" => current_query = (frame + 1) % querycount
    /\ pc \in {"peel", "draw"} =>
          /\ current_query = frame % querycount
          /\ TimerBegins = {1}
          /\ TimerEnds = {}
    /\ FrameDone =>
          /\ current_query = (frame + 1) % querycount
          /\ TimerBegins = {1}
          /\ Cardinality(TimerEnds) = 1
    /\ \A k \in TimerBegins \cup TimerEnds : log[k].id = queries[frame % querycount]

\* a frame without a read and a frame with one have run, and the cursor has wrapped
C15_Witness == FrameDone /\ frame = querycount /\ Reads # {} /\ current_query = 1

(***************************************************************************)
(* C16  As claimed, for the frames in which a result is read: the result   *)
(* of the timer query of slot (cursor+1) mod querycount is read back       *)
(* before the frame's new timer query of slot cursor is begun.             *)
(***************************************************************************)
C16_ReadBeforeBeginAsClaimed ==
    \A k \in Reads : \A b \in TimerBegins : k < b

(***************************************************************************)
(* C16 as amended.  In every frame in which a result is read, the frame's  *)
(* timer query of slot cursor is begun first and ended, and the result of  *)
(* slot (cursor+1) mod querycount, another slot, is read back after that   *)
(* as the last call of the frame, before the cursor advances; that slot is *)
(* begun again only in the next frame, after its result has been read.     *)
(***************************************************************************)
C16_ReadAfterEnd ==
    /\ \A k \in Reads :
          /\ k = Len(log)
          /\ TimerBegins = {1}
          /\ TimerEnds = {k - 1}
          /\ log[k].id = queries[(frame + 1) % querycount]
          /\ log[k].id # log[1].id
    /\ pc \in {"peel", "draw"} =>
          \A q \in inflight : q.slot = current_query => q.frame = frame

\* the first frame that reads a result has ended, and the slot it read has been
\* begun again in a later frame
C16_Witness ==
    /\ Reads # {}
    /\ frame > querycount
    /\ FrameDone

(***************************************************************************)
(* C17  Timer ring as a queue.  At most querycount timer queries are in    *)
(* flight (begun, result not yet read); no slot holds two of them, so a    *)
(* slot is never begun again before its previous result has been read; and *)
(* every read takes the query of slot (cursor+1) mod querycount, which is  *)
(* then the oldest query in flight.                                        *)
(***************************************************************************)
C17_RingQueue ==
    /\ [](/\ Cardinality(inflight) <= querycount
          /\ \A q \in inflight : \A r \in inflight : q.slot = r.slot => q = r)
    /\ [][(Reads = {} /\ Reads' # {}) =>
             \E q \in inflight :
                /\ q.slot = (current_query + 1) % querycount
                /\ \A r \in inflight : r.frame >= q.frame
                /\ inflight' = inflight \ {q}]_vars

\* every slot holds a query in flight, after the cursor has wrapped around
C17_Witness ==
    /\ Cardinality(inflight) = querycount
    /\ frame > querycount

(***************************************************************************)
(* C18  The chunk set is fixed while frames run.  Once construction is     *)
(* over the sequence holds NumChunks distinct chunks, and every step after *)
(* construction leaves the set of chunk records (handles, quadcount,       *)
(* center and query of each chunk together) and their number unchanged:    *)
(* the per-frame sort only permutes the sequence.                          *)
(***************************************************************************)
C18_ChunkSetFixed ==
    /\ [](pc # "extract" =>
             /\ Len(chunks) = NumChunks
             /\ Cardinality(Range(chunks)) = NumChunks)
    /\ [][pc # "extract" =>
             /\ Len(chunks') = Len(chunks)
             /\ Range(chunks') = Range(chunks)]_vars

\* a later frame has ended with the chunks in another order than they were created
C18_Witness ==
    /\ FrameDone
    /\ frame >= 1
    /\ chunks # CreationOrder(chunks)
    /\ Len(chunks) = NumChunks

(***************************************************************************)
(* C19  As claimed: at the end of every frame each chunk's visibility      *)
(* query has been begun exactly once and ended exactly once in that frame, *)
(* and no visibility query is deleted before teardown.                     *)
(***************************************************************************)
\* the calls of the frame that begin, or end, the query of chunk c for chunk c
QueryBegins(c) ==
    {k \in DOMAIN log : /\ IsOcclusionBegin(log[k])
                        /\ log[k].chunk = c.center
                        /\ log[k].id = c.query}

QueryEnds(c) ==
    {k \in DOMAIN log : /\ log[k].op = "glEndQuery"
                        /\ log[k].target = "GL_ANY_SAMPLES_PASSED"
                        /\ log[k].chunk = c.center
                        /\ log[k].id = c.query}

QueryDeleted(c) == \E k \in DOMAIN deleted : deleted[k] = <<"query", c.query>>

C19_RewrittenEveryFrameAsClaimed ==
    /\ FrameDone =>
          \A n \in 1..Len(chunks) :
              /\ Cardinality(QueryBegins(chunks[n])) = 1
              /\ Cardinality(QueryEnds(chunks[n])) = 1
    /\ pc # "done" => \A n \in 1..Len(chunks) : ~QueryDeleted(chunks[n])

(***************************************************************************)
(* C19 as amended.  A frame rewrites the visibility query of a chunk at    *)
(* most once for that chunk: it begins it once and then ends it once when  *)
(* occlusion culling is enabled and the chunk passes the frustum test, and *)
(* makes no such call for the chunk otherwise; the query is never deleted  *)
(* before teardown.                                                        *)
(***************************************************************************)
C19_RewrittenWhenTested ==
    /\ FrameDone =>
          \A n \in 1..Len(chunks) :
              LET c == chunks[n]
              IN  IF Cull /\ ~Rejects(c.center)
                  THEN /\ Cardinality(QueryBegins(c)) = 1
                       /\ Cardinality(QueryEnds(c)) = 1
                       /\ \A b \in QueryBegins(c) : \A e \in QueryEnds(c) : b < e
                  ELSE /\ QueryBegins(c) = {}
                       /\ QueryEnds(c) = {}
    /\ pc # "done" => \A n \in 1..Len(chunks) : ~QueryDeleted(chunks[n])

\* a frame with culling enabled has ended in which one chunk's query was rewritten
\* and another chunk was rejected by the frustum test
C19_Witness ==
    /\ FrameDone
    /\ frame >= 1
    /\ Cull
    /\ \E n \in 1..Len(chunks) : QueryBegins(chunks[n]) # {}
    /\ \E n \in 1..Len(chunks) : Rejects(chunks[n].center)

(***************************************************************************)
(* C20  As claimed: for every chunk the stored center is the midpoint, in  *)
(* each axis, of the extents spanned by the vertices of its bounding mesh, *)
(* and those extents are [origin-0.5, origin+chunksize-0.5].               *)
(***************************************************************************)
BoundingOf(c) == glBuffers[c.bounding_vbo]

\* the least and the greatest coordinate of the bounding mesh along axis a
BoxMin(c, a) ==
    CHOOSE x \in {BoundingOf(c)[n][a] : n \in DOMAIN BoundingOf(c)} :
        \A n \in DOMAIN BoundingOf(c) : x <= BoundingOf(c)[n][a]

BoxMax(c, a) ==
    CHOOSE x \in {BoundingOf(c)[n][a] : n \in DOMAIN BoundingOf(c)} :
        \A n \in DOMAIN BoundingOf(c) : x >= BoundingOf(c)[n][a]

C20_CenterIsBoxMidpointAsClaimed ==
    \A n \in 1..Len(chunks) :
        \A a \in 1..3 :
            2 * chunks[n].center[a] = BoxMin(chunks[n], a) + BoxMax(chunks[n], a)

\* what the code does: the box spans [origin-0.5, origin+chunksize-0.5] and the
\* stored center lies half a voxel beyond its midpoint along every axis
C20_CenterHalfVoxelOff ==
    \A n \in 1..Len(chunks) :
        \A a \in 1..3 :
            /\ BoxMax(chunks[n], a) - BoxMin(chunks[n], a) = Tenths(chunksize)
            /\ 2 * chunks[n].center[a] = BoxMin(chunks[n], a) + BoxMax(chunks[n], a) + 10

(***************************************************************************)
(* C21  Near-to-far order.  From the sort of a frame on, the chunk list is *)
(* in nondecreasing distance from the camera position, and the mesh draws  *)
(* of the frame are issued in the order of the list: a mesh draw is never  *)
(* followed by the mesh draw of a chunk that stands earlier in the list or *)
(* is strictly nearer.                                                     *)
(***************************************************************************)
\* the place of the chunk with this center in the chunk list
IndexOf(center) == CHOOSE n \in 1..Len(chunks) : chunks[n].center = center

MeshDraws == {k \in DOMAIN log : IsMeshDraw(log[k])}

C21_NearToFar ==
    frame >= 0 =>
        /\ \A m, n \in 1..Len(chunks) :
              m < n => Dist2(chunks[m].center, position) <= Dist2(chunks[n].center, position)
        /\ \A k, l \in MeshDraws :
              k < l =>
                 /\ IndexOf(log[k].chunk) < IndexOf(log[l].chunk)
                 /\ Dist2(log[k].chunk, position) <= Dist2(log[l].chunk, position)

\* a later frame has ended in which chunks of two bands were drawn, in a list the
\* sort has reordered
C21_Witness ==
    /\ FrameDone
    /\ frame >= 1
    /\ chunks # CreationOrder(chunks)
    /\ \E k, l \in MeshDraws :
          /\ log[k].band < log[l].band
          /\ Dist2(log[k].chunk, position) < Dist2(log[l].chunk, position)

(***************************************************************************)
(* C22  Band partition.  While a frame peels, the band                     *)
(* boundary is chunksize for the first band and has grown by 2*chunksize   *)
(* after each band, empty or not; every chunk a pass looks at is looked at *)
(* in the band of its distance d: the first band for d < chunksize, the    *)
(* k-th later band for (2k-1)*chunksize <= d < (2k+1)*chunksize; and a     *)
(* frame that has ended has looked at every chunk.                         *)
(***************************************************************************)
Peeling == pc \in {"peel", "draw"}

IsBoxDraw(e) == e.op = "glDrawElements" /\ e.pass = "occlusion"

ScopeOpens == {k \in DOMAIN log : log[k].op = "glBeginConditionalRender"}
ScopeCloses == {k \in DOMAIN log : log[k].op = "glEndConditionalRender"}

\* the query of the chunk with this center
QueryOf(center) == chunks[IndexOf(center)].query

C24_ScopePerDraw ==
    /\ Cull =>
          \A k \in MeshDraws :
              /\ k - 2 \in ScopeOpens
              /\ k + 1 \in ScopeCloses
    /\ \A k \in ScopeOpens :
          /\ Cull
          /\ log[k].mode = "GL_QUERY_BY_REGION_WAIT"
          /\ log[k].id = QueryOf(log[k].chunk)
          /\ \A n \in 1..Len(chunks) :
                chunks[n].center # log[k].chunk => chunks[n].query # log[k].id
          /\ k + 3 \in ScopeCloses
          /\ k + 2 \in MeshDraws
          /\ log[k + 2].chunk = log[k].chunk
          /\ log[k + 2].id = chunks[IndexOf(log[k].chunk)].vao
          /\ \A m \in ScopeOpens \cup ScopeCloses : ~(k < m /\ m < k + 3)
    /\ \A k \in ScopeCloses : k - 3 \in ScopeOpens

\* a frame with culling has ended in which two chunks of one band and a chunk of
\* another band were drawn in scopes of their own
C24_Witness ==
    /\ FrameDone
    /\ Cull
    /\ \E k, l, m \in ScopeOpens :
          /\ k < l
          /\ log[k].band = log[l].band
          /\ log[m].band # log[k].band

(***************************************************************************)
(* C25  Degenerate path.  In a frame rendered with culling disabled no     *)
(* occlusion query is begun, no bounding box is drawn, no call is made in  *)
(* an occlusion pass and no conditional-render scope is opened or closed;  *)
(* when the frame has ended, every chunk that passes the frustum test has  *)
(* been drawn exactly once and every other chunk not at all, and the draws *)
(* follow the order of the sorted list.                                    *)
(***************************************************************************)
DrawsOf(c) == {k \in MeshDraws : log[k].chunk = c.center /\ log[k].id = c.vao}

C25_PlainSortedDraw ==
    ~Cull =>
        /\ \A k \in DOMAIN log :
              /\ ~IsOcclusionBegin(log[k])
              /\ ~IsBoxDraw(log[k])
              /\ log[k].pass # "occlusion"
              /\ k \notin ScopeOpens \cup ScopeCloses
        /\ \A n \in 1..Len(chunks) : Cardinality(DrawsOf(chunks[n])) <= 1
        /\ FrameDone =>
              \A n \in 1..Len(chunks) :
                  Cardinality(DrawsOf(chunks[n])) =
                      IF Rejects(chunks[n].center) THEN 0 ELSE 1
        /\ \A k, l \in MeshDraws :
              k < l => IndexOf(log[k].chunk) < IndexOf(log[l].chunk)

\* a later frame without culling has ended that drew chunks of two bands and
\* rejected a chunk
C25_Witness ==
    /\ FrameDone
    /\ frame >= 1
    /\ ~Cull
    /\ \E n \in 1..Len(chunks) : Rejects(chunks[n].center)
    /\ \E k, l \in MeshDraws : log[k].band < log[l].band

(***************************************************************************)
(* C26  Queries and conditional draws agree.  In a frame rendered with     *)
(* culling, for every band whose draw pass is over, the chunks for which   *)
(* an occlusion query was issued in the band and the chunks whose draw was *)
(* conditionally rendered in the band are the same chunks in the same      *)
(* order, each draw conditional on the query issued for its chunk; while   *)
(* the draw pass of a band is still to come no draw of that band has been  *)
(* made.                                                                   *)
(***************************************************************************)
QueriesIn(b) == {k \in DOMAIN log : IsOcclusionBegin(log[k]) /\ log[k].band = b}
ScopesIn(b) == {k \in ScopeOpens : log[k].band = b}

\* the number of calls of S made before call k
RankIn(k, S) == Cardinality({m \in S : m < k})

C26_QueriesMatchDraws ==
    Cull =>
        /\ \A b \in 0..(band - 1) :
              /\ Cardinality(QueriesIn(b)) = Cardinality(ScopesIn(b))
              /\ \A k \in QueriesIn(b) :
                    \E d \in ScopesIn(b) :
                        /\ RankIn(d, ScopesIn(b)) = RankIn(k, QueriesIn(b))
                        /\ log[d].chunk = log[k].chunk
                        /\ log[d].id = log[k].id
                        /\ k < d
        /\ \A k \in DOMAIN log : log[k].band <= band
        /\ ScopesIn(band) = {}

\* a frame with culling has ended in which a band had two queries and a chunk was
\* rejected by the frustum test
C26_Witness ==
    /\ FrameDone
    /\ Cull
    /\ \E b \in 0..(band - 1) : Cardinality(QueriesIn(b)) >= 2
    /\ \E k \in DOMAIN log : log[k].op = "iter" /\ log[k].rejected

(***************************************************************************)
(* C27  Frame-loop cancellation.  Once the running flag is cleared it is   *)
(* never set again; when a close event, an Escape key event or an error    *)
(* callback has cleared it during the event pump of a frame, that frame is *)
(* still rendered to its end (every chunk looked at by the draw pass, the  *)
(* timer query ended), no frame is started after it, and the teardown      *)
(* eventually runs; the timer queries whose results are unread at the      *)
(* teardown are deleted, once, and stay unread.                            *)
(***************************************************************************)
RenderedToTheEnd ==
    /\ TimerEnds # {}
    /\ \A n \in 1..Len(chunks) : Visits(chunks[n].center, "draw") # {}

Cancelled == ~userdata.running

C27_Cancellation ==
    /\ [][Cancelled => ~userdata'.running]_vars
    /\ [][(Cancelled /\ pc = "events") => frame' \in {frame, frame + 1}]_vars
    /\ [][(Cancelled /\ pc # "events") => frame' = frame]_vars
    /\ [][(Cancelled /\ pc = "loop") => pc' \in {"loop", "done"}]_vars
    /\ ((Cancelled /\ pc = "events") ~> (pc = "done" /\ RenderedToTheEnd))
    /\ (Cancelled ~> pc = "done")
    /\ [](pc = "done" =>
            /\ Cancelled
            /\ \A q \in inflight : Deletions(<<"query", queries[q.slot]>>) = 1)
    /\ [][pc = "done" => inflight' = inflight]_vars

\* the flag was cleared by an event of the second frame, the frame was rendered and
\* the teardown has deleted timer queries that were never read
C27_Witness ==
    /\ pc = "done"
    /\ ~error
    /\ frame >= 1
    /\ RenderedToTheEnd
    /\ Cardinality(inflight) >= 2

(***************************************************************************)
(* C28  As claimed: the peel loop terminates for every camera position.    *)
(* The number of peel iterations of a frame is at most the number of bands *)
(* needed to pass the distance of the farthest chunk: a frame that has     *)
(* done b >= 2 iterations and peels on has a chunk that the first b-1      *)
(* bands, which end at distance (2b-3)*chunksize, do not hold.             *)
(***************************************************************************)
\* the boundary (tenths) that ends the first b bands: (2b-1)*chunksize
BoundaryAfter(b) == Tenths((2 * b - 1) * chunksize)

C28_PeelBoundedAsClaimed ==
    (Peeling /\ band >= 2) =>
        \E n \in 1..Len(chunks) :
            Dist2(chunks[n].center, position) >=
                BoundaryAfter(band - 1) * BoundaryAfter(band - 1)

\* what the code does for the far camera: the band boundary stops below the
\* distance of the nearest chunk, and no chunk is ever consumed
C28_FarCameraStalls ==
    (Peeling /\ position = FarPosition) =>
        /\ i = 0
        /\ maxdist <= 2^(FloatMantissa + 3)
        /\ \A n \in 1..Len(chunks) : ~DistLess(chunks[n].center, position, maxdist)

(***************************************************************************)
(* C29  Query nesting discipline.  In the calls of a frame: the timer      *)
(* query is begun once, by the first call, and ended at most once, once    *)
(* when the frame has ended; every occlusion query that is begun is ended  *)
(* by the third call after its begin, with no begin or end of any query in *)
(* between, and every end of an occlusion query closes such a begin, so    *)
(* no two queries of one target are ever active together; every occlusion  *)
(* query lies after the timer begin and before the timer end; and a        *)
(* conditional render is opened only on a query that was ended before and  *)
(* is not the timer query.                                                 *)
(***************************************************************************)
OcclusionBegins == {k \in DOMAIN log : IsOcclusionBegin(log[k])}
OcclusionEnds ==
    {k \in DOMAIN log : log[k].op = "glEndQuery" /\ log[k].target = "GL_ANY_SAMPLES_PASSED"}
QueryCalls == TimerBegins \cup TimerEnds \cup OcclusionBegins \cup OcclusionEnds

C29_QueryNesting ==
    /\ log # <<>> => TimerBegins = {1}
    /\ Cardinality(TimerEnds) <= 1
    /\ FrameDone => Cardinality(TimerEnds) = 1
    /\ \A e \in TimerEnds : log[e].id = log[1].id
    /\ \A b \in OcclusionBegins :
          /\ b + 3 \in OcclusionEnds
          /\ log[b + 3].id = log[b].id
          /\ \A k \in QueryCalls : ~(b < k /\ k < b + 3)
          /\ 1 < b
          /\ \A e \in TimerEnds : b + 3 < e
          /\ log[b].id # log[1].id
    /\ \A e \in OcclusionEnds : e - 3 \in OcclusionBegins
    /\ \A k \in ScopeOpens :
          /\ log[k].id # log[1].id
          /\ \E b \in OcclusionBegins : log[b].id = log[k].id /\ b + 3 < k
          /\ \A b \in OcclusionBegins : ~(b < k /\ k < b + 3)

\* a later frame has ended that issued occlusion queries in two bands and opened
\* conditional renders on them
C29_Witness ==
    /\ FrameDone
    /\ frame >= 1
    /\ \E a, b \in OcclusionBegins : log[a].band < log[b].band
    /\ Cardinality(ScopeOpens) >= 2

(***************************************************************************)
(* C30  The culling toggle.  The toggle changes only by a step of the      *)
(* event pump, and such a step flips it only for a space key-down: it is   *)
(* the same before and after every other step, in particular throughout    *)
(* the peel loop of a frame; a space key-down flips it, a space key-up and *)
(* every other key leave it, two key-downs restore it.  So in the calls of *)
(* a frame either culling is on, every band that issued queries has the    *)
(* conditional renders for them and as many scopes are closed as opened,   *)
(* or it is off and no query is issued and no scope opened or closed.      *)
(***************************************************************************)
Toggled(ud) == [ud EXCEPT !.occlusion_cull = ~ud.occlusion_cull]

C30_ToggleStable ==
    /\ [][userdata'.occlusion_cull # userdata.occlusion_cull =>
             /\ pc = "events"
             /\ pc' = "events"
             /\ userdata' = Toggled(userdata)]_vars
    /\ [](/\ KeyEffect(userdata, 1, "SPACE") = Toggled(userdata)
          /\ KeyEffect(userdata, 0, "SPACE") = userdata
          /\ KeyEffect(KeyEffect(userdata, 1, "SPACE"), 1, "SPACE") = userdata
          /\ \A down \in {0, 1} : \A keysym \in {"ESCAPE", "W", "S", "A", "D", "Q", "E", "OTHER"} :
                KeyEffect(userdata, down, keysym).occlusion_cull = userdata.occlusion_cull)
    /\ [](IF Cull
          THEN /\ \A b \in 0..(band - 1) :
                     Cardinality(QueriesIn(b)) = Cardinality(ScopesIn(b))
               /\ Cardinality(ScopeOpens) = Cardinality(ScopeCloses)
          ELSE /\ OcclusionBegins = {}
               /\ ScopeOpens = {}
               /\ ScopeCloses = {})

\* the second frame peels with the toggle off, after a space key-down of an event
\* pump, and has drawn a chunk
C30_Witness ==
    /\ Peeling
    /\ frame >= 1
    /\ ~Cull
    /\ MeshDraws # {}

====
